---- MODULE Spec2Model ----
(***************************************************************************)
(* Model of the serverless client-deploy plugin (class Client, index.js):  *)
(* the 'client:deploy:deploy' hook, _validateAndPrepare, the promise chain *)
(* of _processDeployment against the S3 bucket, and the callback-driven    *)
(* directory walk of _uploadDirectory / _uploadFile.                       *)
(*                                                                         *)
(* Strings that the code manipulates character by character (paths, keys)  *)
(* are sequences of one-character strings.                                 *)
(***************************************************************************)
EXTENDS Integers, Sequences, FiniteSets, TLC

VARIABLES
    sep,            \* path.sep of the platform: "/" or "\\"
    tree,           \* the local client/dist tree: [files, dirs], sets of name sequences
    distExists,     \* Utils.dirExistsSync(<servicePath>/client/dist)
    cfgBucket,      \* serverless.service.custom.client.bucketName ("" when not configured)
    store,          \* the remote store: bucket name -> [exists, objects, website, policy]
    bucketName,     \* this.bucketName ("" while undefined)
    clientPath,     \* this.clientPath (<<>> while undefined)
    bucketExists,   \* this.bucketExists (FALSE while undefined; the code never resets it)
    pc,             \* the next handler of the promise chain, "idle" or "settled"
    inflight,       \* the remote call of the chain that is awaiting its response
    data,           \* the value the previous handler of the chain resolved with
    promise,        \* the promise the hook's chain evaluates to: [state, error]
    observed,       \* what the caller of the hook has been handed: [returned, value]
    calls,          \* the reconcile calls issued in this run, in order
    events,         \* issue / ok / err events of the reconcile calls of this run, in order
    listed,         \* the keys of this run's listObjects response
    seenBuckets,    \* the bucket names of this run's listBuckets response
    reconciled,     \* per run, the target bucket at the moment putBucketPolicy completed
    pending,        \* callbacks of the upload stage that have been requested and not yet run
    puts,           \* putObject calls issued in this run: set of [path, Key, Body]
    putCount,       \* number of putObject calls issued in this run, per source path
    putsDone,       \* source paths whose putObject call has succeeded in this run
    uploadFailures, \* failures that occurred in the upload stage of this run
    crashed,        \* an exception escaped a callback
    run             \* number of hook invocations so far on this Client instance

vars == << sep, tree, distExists, cfgBucket, store, bucketName, clientPath,
           bucketExists, pc, inflight, data, promise, observed, calls, events,
           listed, seenBuckets, reconciled, pending, puts, putCount, putsDone,
           uploadFailures, crashed, run >>

----------------------------------------------------------------------------
(* Bounds of the model *)

\* hook invocations on one Client instance
MaxRuns == 2
\* an initially present bucket holds 0..MaxStale objects, or a page and more
MaxStale == 2
\* objects held beyond one listing page in the large initial bucket
MaxOver == 1

\* S3 ListObjects returns at most MaxKeys keys per call (1000 unless the request
\* sets MaxKeys); the request of listObjectsInBucket sets only Bucket.
MaxKeys == 1000

----------------------------------------------------------------------------
(* Strings *)

Min(a, b) == IF a < b THEN a ELSE b

\* s.indexOf(pat): first index (1-based) at which pat occurs in s, 0 if none
IndexOf(s, pat) ==
    LET hits == { i \in 1..(Len(s) - Len(pat) + 1) : SubSeq(s, i, i + Len(pat) - 1) = pat }
    IN  IF hits = {} THEN 0 ELSE CHOOSE i \in hits : \A j \in hits : i <= j

\* s.replace(pat, rep) with a string pattern: only the first occurrence is replaced
ReplaceFirst(s, pat, rep) ==
    LET i == IndexOf(s, pat)
    IN  IF i = 0 THEN s
        ELSE SubSeq(s, 1, i - 1) \o rep \o SubSeq(s, i + Len(pat), Len(s))

\* s.substr(1)
Substr1(s) == SubSeq(s, 2, Len(s))

\* path.join(dir, name) on normalised operands
Join(dir, name) == dir \o <<sep>> \o name

----------------------------------------------------------------------------
(* The local filesystem *)

\* file and directory names of the modelled trees
nIndex == <<"i">>
nCss == <<"c">>
nApp == <<"a">>
nDeep == <<"d">>
nEmpty == <<"e">>
\* names that contain a backslash exist only where the separator is "/"
nCssApp == <<"c", "\\", "a">>
nLead == <<"\\", "a">>

TreeEmpty == [files |-> {}, dirs |-> {}]
TreeFlat == [files |-> { <<nIndex>> }, dirs |-> {}]
TreeNested ==
    [files |-> { <<nIndex>>, <<nCss, nApp>>, <<nCss, nDeep, nApp>> },
     dirs  |-> { <<nCss>>, <<nCss, nDeep>>, <<nEmpty>> }]
TreeClash ==
    [files |-> { <<nCssApp>>, <<nCss, nApp>> }, dirs |-> { <<nCss>> }]
TreeLead == [files |-> { <<nLead>> }, dirs |-> {}]

Trees(s) ==
    IF s = "/" THEN { TreeEmpty, TreeFlat, TreeNested, TreeClash, TreeLead }
    ELSE { TreeEmpty, TreeFlat, TreeNested }

\* serverless.config.servicePath
servicePath == <<sep, "s">>

\* path.join(servicePath, 'client', 'dist')
distPath ==
    Join(Join(servicePath, <<"c", "l", "i", "e", "n", "t">>), <<"d", "i", "s", "t">>)

\* the path string of a node of the tree, given as its names from the root
RECURSIVE AbsPath(_)
AbsPath(rel) ==
    IF rel = <<>> THEN distPath
    ELSE Join(AbsPath(SubSeq(rel, 1, Len(rel) - 1)), rel[Len(rel)])

Nodes == tree.files \cup tree.dirs \cup { <<>> }

\* the node a path string names (the fs resolves the string)
NodeAt(p) == CHOOSE n \in Nodes : AbsPath(n) = p

\* fs.readdir(directoryPath): the names of the entries of the directory
ReadDir(p) ==
    LET d == NodeAt(p)
    IN  { n[Len(n)] : n \in { m \in Nodes : /\ Len(m) = Len(d) + 1
                                            /\ SubSeq(m, 1, Len(d)) = d } }

\* fs.stat as it would be if it never reported a directory
IsDirectoryNever(p) == FALSE

\* fs.stat(path).isDirectory()
IsDirectory(p) == NodeAt(p) \in tree.dirs \cup { <<>> }

\* the regular files of the tree, as path strings
RegularFiles == { AbsPath(f) : f \in tree.files }

----------------------------------------------------------------------------
(* The remote store *)

TargetBucket == "site"
OtherBucket == "other"
BucketNames == { TargetBucket, OtherBucket }

NoConfig == "none"
OldConfig == "old"
\* WebsiteConfiguration {IndexDocument: index.html, ErrorDocument: error.html}
WebsiteConfig == "index.html/error.html"
\* the policy document: Allow s3:GetObject to "*" on arn:aws:s3:::<bucket>/*
PolicyFor(b) == <<"Allow", "*", "s3:GetObject", b>>
NoPolicy == <<>>
OldPolicy == <<"old">>

EmptyObjects == [k \in {} |-> <<>>]

AbsentBucket ==
    [exists |-> FALSE, objects |-> EmptyObjects, website |-> NoConfig, policy |-> NoPolicy]

Digits == <<"0", "1", "2", "3", "4", "5", "6", "7", "8", "9">>

\* the key of the n-th object a previous deployment left behind
StaleKey(n) ==
    << "k", Digits[((n \div 1000) % 10) + 1], Digits[((n \div 100) % 10) + 1],
       Digits[((n \div 10) % 10) + 1], Digits[(n % 10) + 1] >>

StaleBody == <<"stale">>

StaleObjects(n) == [k \in { StaleKey(i) : i \in 1..n } |-> StaleBody]

\* the characters of the model in byte order
Ascii ==
    << "*", "/", "0", "1", "2", "3", "4", "5", "6", "7", "8", "9", "\\",
       "a", "c", "d", "e", "i", "k", "l", "n", "p", "s", "t" >>

Code == [c \in { Ascii[i] : i \in DOMAIN Ascii } |-> CHOOSE i \in DOMAIN Ascii : Ascii[i] = c]

\* byte order of keys, the order in which S3 lists them
KeyLess(a, b) ==
    LET m == Min(Len(a), Len(b))
        diff == { i \in 1..m : a[i] # b[i] }
    IN  IF diff = {} THEN Len(a) < Len(b)
        ELSE LET i == CHOOSE x \in diff : \A y \in diff : x <= y
             IN  Code[a[i]] < Code[b[i]]

\* the greatest key of a non-empty set, in byte order
MaxKey(keys) == CHOOSE k \in keys : \A j \in keys : ~KeyLess(k, j)

RECURSIVE DropLargest(_, _)
DropLargest(keys, m) ==
    IF m <= 0 THEN keys ELSE DropLargest(keys \ { MaxKey(keys) }, m - 1)

\* the keys of one listing page: the first MaxKeys keys in byte order
Listing(keys) == DropLargest(keys, Cardinality(keys) - MaxKeys)

\* numbers of objects an initially present target bucket may hold
StaleCounts == (0..MaxStale) \cup { MaxKeys + MaxOver }

InitialTargets ==
    { AbsentBucket }
    \cup { [exists |-> TRUE, objects |-> StaleObjects(n), website |-> w.website,
            policy |-> w.policy] :
           n \in StaleCounts,
           w \in { [website |-> NoConfig, policy |-> NoPolicy],
                   [website |-> OldConfig, policy |-> OldPolicy] } }

InitialOther ==
    [exists |-> TRUE, objects |-> [k \in { <<"k", "e", "e", "p">> } |-> StaleBody],
     website |-> OldConfig, policy |-> OldPolicy]

----------------------------------------------------------------------------
(* Values of the promise chain *)

Undefined == [defined |-> FALSE, Buckets |-> {}, Contents |-> {}]

NoCall == [op |-> "none", Bucket |-> "", Objects |-> {}]

Call(op, b, objs) == [op |-> op, Bucket |-> b, Objects |-> objs]

Pending == [state |-> "pending", error |-> ""]
Resolved == [state |-> "resolved", error |-> ""]
Rejected(e) == [state |-> "rejected", error |-> e]

MissingBuildOutput == "Could not find \"client/dist\" folder in your project root."
MissingConfiguration == "Please specify a bucket name for the client in serverless.yml."
StoreError(op) == "StoreError:" \o op

NoPuts == [p \in RegularFiles \cup { AbsPath(d) : d \in tree.dirs } |-> 0]

----------------------------------------------------------------------------
(* Initial state: a fresh Client, a local tree, a remote store *)

Init ==
    /\ sep \in { "/", "\\" }
    /\ tree \in Trees(sep)
    /\ distExists = TRUE
    /\ cfgBucket = TargetBucket
    /\ \E t \in InitialTargets :
          store = [b \in BucketNames |-> IF b = TargetBucket THEN t ELSE InitialOther]
    /\ bucketName = ""
    /\ clientPath = <<>>
    /\ bucketExists = FALSE
    /\ pc = "idle"
    /\ inflight = NoCall
    /\ data = Undefined
    /\ promise = Pending
    /\ observed = [returned |-> FALSE, value |-> ""]
    /\ calls = <<>>
    /\ events = <<>>
    /\ listed = {}
    /\ seenBuckets = {}
    /\ reconciled = <<>>
    /\ pending = {}
    /\ puts = {}
    /\ putCount = NoPuts
    /\ putsDone = {}
    /\ uploadFailures = {}
    /\ crashed = FALSE
    /\ run = 0

----------------------------------------------------------------------------
(* The hook and validation *)

\* _validateAndPrepare without its two checks
validateAndPrepareUnchecked(d, b) ==
    [promise |-> Resolved, bucketName |-> b, clientPath |-> distPath]

\* _validateAndPrepare, for the inputs d = dirExistsSync(client/dist) and
\* b = custom.client.bucketName: the promise it returns and the fields it sets
validateAndPrepare(d, b) ==
    IF ~d THEN
        [promise |-> Rejected(MissingBuildOutput), bucketName |-> bucketName,
         clientPath |-> clientPath]
    ELSE IF b = "" THEN
        [promise |-> Rejected(MissingConfiguration), bucketName |-> bucketName,
         clientPath |-> clientPath]
    ELSE
        [promise |-> Resolved, bucketName |-> b, clientPath |-> distPath]

\* nothing of an earlier invocation is still running
Quiescent == pc \in { "idle", "settled" } /\ inflight = NoCall /\ pending = {}

\* hooks['client:deploy:deploy']: runs _validateAndPrepare, chains
\* _processDeployment on it and returns undefined
Hook ==
    /\ ~crashed
    /\ Quiescent
    /\ run < MaxRuns
    /\ \E d \in BOOLEAN, b \in { "", TargetBucket } :
          LET v == validateAndPrepare(d, b)
          IN  /\ distExists' = d
              /\ cfgBucket' = b
              /\ bucketName' = v.bucketName
              /\ clientPath' = v.clientPath
              /\ IF v.promise.state = "rejected"
                 THEN promise' = v.promise /\ pc' = "settled"
                 ELSE promise' = Pending /\ pc' = "processDeployment"
    /\ observed' = [returned |-> TRUE, value |-> "undefined"]
    /\ run' = run + 1
    /\ data' = Undefined
    /\ calls' = <<>>
    /\ events' = <<>>
    /\ listed' = {}
    /\ seenBuckets' = {}
    /\ puts' = {}
    /\ putCount' = NoPuts
    /\ putsDone' = {}
    /\ uploadFailures' = {}
    /\ UNCHANGED << sep, tree, store, bucketExists, inflight, reconciled, pending, crashed >>

----------------------------------------------------------------------------
(* The reconcile chain of _processDeployment *)

\* a handler of the chain issues a remote call and the chain waits for it
Issue(c, next) ==
    /\ inflight' = c
    /\ calls' = Append(calls, c)
    /\ events' = Append(events, [ev |-> "call", op |-> c.op])
    /\ pc' = next
    /\ data' = Undefined

\* a handler of the chain returns BbPromise.resolve() or undefined
Skip(next) ==
    /\ pc' = next
    /\ data' = Undefined
    /\ UNCHANGED << inflight, calls, events >>

\* a handler as it would run if .then did not wait for the promise before it
ReadyNoWait(h) == pc = h /\ promise = Pending /\ ~crashed

Ready(h) == pc = h /\ inflight = NoCall /\ promise = Pending /\ ~crashed

\* _processDeployment up to its first call: this.s3.listBuckets({})
processDeployment ==
    /\ Ready("processDeployment")
    /\ Issue(Call("listBuckets", "", {}), "listBuckets")
    /\ UNCHANGED << sep, tree, distExists, cfgBucket, store, bucketName, clientPath,
                    bucketExists, promise, observed, listed, seenBuckets, reconciled, pending, puts,
                    putCount, putsDone, uploadFailures, crashed, run >>

\* the handler listBuckets(data)
listBuckets ==
    /\ Ready("listBuckets")
    /\ bucketExists' = (bucketExists \/ \E b \in data.Buckets : b.Name = bucketName)
    /\ Skip("listObjectsInBucket")
    /\ UNCHANGED << sep, tree, distExists, cfgBucket, store, bucketName, clientPath,
                    promise, observed, listed, seenBuckets, reconciled, pending, puts,
                    putCount, putsDone, uploadFailures, crashed, run >>

\* the handler listObjectsInBucket()
listObjectsInBucket ==
    /\ Ready("listObjectsInBucket")
    /\ IF ~bucketExists THEN Skip("deleteObjectsFromBucket")
       ELSE Issue(Call("listObjects", bucketName, {}), "deleteObjectsFromBucket")
    /\ UNCHANGED << sep, tree, distExists, cfgBucket, store, bucketName, clientPath,
                    bucketExists, promise, observed, listed, seenBuckets, reconciled, pending, puts,
                    putCount, putsDone, uploadFailures, crashed, run >>

\* the delete list as it would be if the map skipped one entry
DeleteListDropsOne(contents) ==
    { [Key |-> c.Key] : c \in contents \ { CHOOSE c \in contents : TRUE } }

\* Objects = _.map(data.Contents, content => _.pick(content, 'Key'))
DeleteList(contents) == { [Key |-> c.Key] : c \in contents }

\* the handler as it would be without its test of data.Contents[0]
deleteObjectsFromBucketNoEmptyCheck ==
    /\ Ready("deleteObjectsFromBucket")
    /\ IF ~bucketExists THEN Skip("createBucket")
       ELSE Issue(Call("deleteObjects", bucketName, DeleteList(data.Contents)),
                  "createBucket")
    /\ UNCHANGED << sep, tree, distExists, cfgBucket, store, bucketName, clientPath,
                    bucketExists, promise, observed, listed, seenBuckets, reconciled,
                    pending, puts, putCount, putsDone, uploadFailures, crashed, run >>

\* the handler deleteObjectsFromBucket(data)
deleteObjectsFromBucket ==
    /\ Ready("deleteObjectsFromBucket")
    /\ IF ~bucketExists THEN Skip("createBucket")
       ELSE IF data.Contents = {} THEN Skip("createBucket")
       ELSE Issue(Call("deleteObjects", bucketName, DeleteList(data.Contents)),
                  "createBucket")
    /\ UNCHANGED << sep, tree, distExists, cfgBucket, store, bucketName, clientPath,
                    bucketExists, promise, observed, listed, seenBuckets, reconciled, pending, puts,
                    putCount, putsDone, uploadFailures, crashed, run >>

\* the handler createBucket()
createBucket ==
    /\ Ready("createBucket")
    /\ IF bucketExists THEN Skip("configureBucket")
       ELSE Issue(Call("createBucket", bucketName, {}), "configureBucket")
    /\ UNCHANGED << sep, tree, distExists, cfgBucket, store, bucketName, clientPath,
                    bucketExists, promise, observed, listed, seenBuckets, reconciled, pending, puts,
                    putCount, putsDone, uploadFailures, crashed, run >>

\* the handler as it would be if it configured only a bucket it had just created
configureBucketIfNew ==
    /\ Ready("configureBucket")
    /\ IF bucketExists THEN Skip("configurePolicyForBucket")
       ELSE Issue(Call("putBucketWebsite", bucketName, {}), "configurePolicyForBucket")
    /\ UNCHANGED << sep, tree, distExists, cfgBucket, store, bucketName, clientPath,
                    bucketExists, promise, observed, listed, seenBuckets, reconciled,
                    pending, puts, putCount, putsDone, uploadFailures, crashed, run >>

\* the handler configureBucket()
configureBucket ==
    /\ Ready("configureBucket")
    /\ Issue(Call("putBucketWebsite", bucketName, {}), "configurePolicyForBucket")
    /\ UNCHANGED << sep, tree, distExists, cfgBucket, store, bucketName, clientPath,
                    bucketExists, promise, observed, listed, seenBuckets, reconciled, pending, puts,
                    putCount, putsDone, uploadFailures, crashed, run >>

\* the handler as it would be if its params named another bucket
configurePolicyForOtherBucket ==
    /\ Ready("configurePolicyForBucket")
    /\ Issue(Call("putBucketPolicy", OtherBucket, {}), "uploadDirectory")
    /\ UNCHANGED << sep, tree, distExists, cfgBucket, store, bucketName, clientPath,
                    bucketExists, promise, observed, listed, seenBuckets, reconciled,
                    pending, puts, putCount, putsDone, uploadFailures, crashed, run >>

\* the handler configurePolicyForBucket()
configurePolicyForBucket ==
    /\ Ready("configurePolicyForBucket")
    /\ Issue(Call("putBucketPolicy", bucketName, {}), "uploadDirectory")
    /\ UNCHANGED << sep, tree, distExists, cfgBucket, store, bucketName, clientPath,
                    bucketExists, promise, observed, listed, seenBuckets, reconciled, pending, puts,
                    putCount, putsDone, uploadFailures, crashed, run >>

\* whether the store can serve the call (otherwise it can only fail)
CanSucceed(c) ==
    CASE c.op = "listBuckets" -> TRUE
      [] c.op = "createBucket" -> c.Bucket \in BucketNames /\ ~store[c.Bucket].exists
      [] OTHER -> c.Bucket \in BucketNames /\ store[c.Bucket].exists

\* the data a successful call resolves with
Response(c) ==
    CASE c.op = "listBuckets" ->
            [defined |-> TRUE, Contents |-> {},
             Buckets |-> { [Name |-> b] : b \in { x \in BucketNames : store[x].exists } }]
      [] c.op = "listObjects" ->
            [defined |-> TRUE, Buckets |-> {},
             Contents |-> { [Key |-> k, ETag |-> store[c.Bucket].objects[k]] :
                            k \in Listing(DOMAIN store[c.Bucket].objects) }]
      [] OTHER -> [defined |-> TRUE, Buckets |-> {}, Contents |-> {}]

\* the bucket after a successful call on it
Effect(c) ==
    LET b == store[c.Bucket]
    IN  CASE c.op = "deleteObjects" ->
                [b EXCEPT !.objects =
                    [k \in DOMAIN b.objects \ { o.Key : o \in c.Objects } |-> b.objects[k]]]
          [] c.op = "createBucket" ->
                [exists |-> TRUE, objects |-> EmptyObjects, website |-> NoConfig,
                 policy |-> NoPolicy]
          [] c.op = "putBucketWebsite" -> [b EXCEPT !.website = WebsiteConfig]
          [] c.op = "putBucketPolicy" -> [b EXCEPT !.policy = PolicyFor(c.Bucket)]
          [] OTHER -> b

\* the call in flight succeeds: the promise of the call resolves
RemoteOk ==
    /\ inflight # NoCall
    /\ ~crashed
    /\ CanSucceed(inflight)
    /\ store' = IF inflight.op \in { "listBuckets", "listObjects" } THEN store
                ELSE [store EXCEPT ![inflight.Bucket] = Effect(inflight)]
    /\ data' = Response(inflight)
    /\ listed' = IF inflight.op = "listObjects"
                 THEN { c.Key : c \in data'.Contents } ELSE listed
    /\ seenBuckets' = IF inflight.op = "listBuckets"
                      THEN { b.Name : b \in data'.Buckets } ELSE seenBuckets
    /\ reconciled' = IF inflight.op = "putBucketPolicy"
                     THEN Append(reconciled, store'[inflight.Bucket]) ELSE reconciled
    /\ events' = Append(events, [ev |-> "ok", op |-> inflight.op])
    /\ inflight' = NoCall
    /\ UNCHANGED << sep, tree, distExists, cfgBucket, bucketName, clientPath,
                    bucketExists, pc, promise, observed, calls, pending, puts, putCount,
                    putsDone, uploadFailures, crashed, run >>

\* a failing call as it would be if a handler of the chain caught the rejection
\* and let the chain go on
RemoteFailSwallowed ==
    /\ inflight # NoCall
    /\ ~crashed
    /\ data' = Undefined
    /\ events' = Append(events, [ev |-> "err", op |-> inflight.op])
    /\ inflight' = NoCall
    /\ UNCHANGED << sep, tree, distExists, cfgBucket, store, bucketName, clientPath,
                    bucketExists, pc, promise, observed, calls, listed, seenBuckets, reconciled,
                    pending, puts, putCount, putsDone, uploadFailures, crashed, run >>

\* the call in flight fails: no handler of the chain takes a rejection, so the
\* promise of the chain rejects with the error of the call
RemoteFail ==
    /\ inflight # NoCall
    /\ ~crashed
    /\ promise' = Rejected(StoreError(inflight.op))
    /\ pc' = "settled"
    /\ events' = Append(events, [ev |-> "err", op |-> inflight.op])
    /\ inflight' = NoCall
    /\ UNCHANGED << sep, tree, distExists, cfgBucket, store, bucketName, clientPath,
                    bucketExists, data, observed, calls, listed, seenBuckets, reconciled, pending,
                    puts, putCount, putsDone, uploadFailures, crashed, run >>

----------------------------------------------------------------------------
(* The upload stage: _uploadDirectory and _uploadFile *)

\* failures injected into the upload stage of one run
MaxUploadFailures == 1

Callback(op, path, key, body) == [op |-> op, path |-> path, Key |-> key, Body |-> body]

\* fileKey = filePath.replace(clientPath, '').substr(1).replace('\\', '/')
FileKey(filePath) ==
    ReplaceFirst(Substr1(ReplaceFirst(filePath, clientPath, <<>>)), <<"\\">>, <<"/">>)

\* _uploadDirectory as it would be if it never requested fs.readdir
uploadDirectoryNothing(directoryPath) == {}

\* _uploadDirectory(directoryPath): requests fs.readdir and returns
uploadDirectory(directoryPath) == { Callback("readdir", directoryPath, <<>>, <<>>) }

\* _uploadFile as it would be if it never requested fs.readFile
uploadFileNothing(filePath) == {}

\* _uploadFile(filePath): computes the key, requests fs.readFile and returns
uploadFile(filePath) == { Callback("readFile", filePath, FileKey(filePath), <<>>) }

\* the bytes fs.readFile yields for a file
FileBytes(filePath) == filePath

\* the upload as it would start if it were chained before configurePolicyForBucket
thenUploadDirectoryEarly ==
    /\ Ready("configurePolicyForBucket")
    /\ pending' = pending \cup uploadDirectory(clientPath)
    /\ promise' = Resolved
    /\ pc' = "settled"
    /\ data' = Undefined
    /\ UNCHANGED << sep, tree, distExists, cfgBucket, store, bucketName, clientPath,
                    bucketExists, inflight, observed, calls, events, listed, seenBuckets,
                    reconciled, puts, putCount, putsDone, uploadFailures, crashed, run >>

\* the last handler of the chain: () => this._uploadDirectory(this.clientPath);
\* it returns undefined, so the promise of the chain resolves
thenUploadDirectory ==
    /\ Ready("uploadDirectory")
    /\ pending' = pending \cup uploadDirectory(clientPath)
    /\ promise' = Resolved
    /\ pc' = "settled"
    /\ data' = Undefined
    /\ UNCHANGED << sep, tree, distExists, cfgBucket, store, bucketName, clientPath,
                    bucketExists, inflight, observed, calls, events, listed, seenBuckets, reconciled,
                    puts, putCount, putsDone, uploadFailures, crashed, run >>

UploadFrame ==
    UNCHANGED << sep, tree, distExists, cfgBucket, bucketName, clientPath, bucketExists,
                 pc, inflight, data, promise, observed, calls, events, listed, seenBuckets,
                 reconciled, run >>

\* the waterfall step after fs.readdir: join each entry and request fs.stat on it
readdirCallback ==
    /\ ~crashed
    /\ \E cb \in pending :
          /\ cb.op = "readdir"
          /\ pending' = (pending \ { cb })
                \cup { Callback("stat", Join(cb.path, f), <<>>, <<>>) : f \in ReadDir(cb.path) }
    /\ UploadFrame
    /\ UNCHANGED << store, puts, putCount, putsDone, uploadFailures, crashed >>

\* the callback of fs.stat: recurse into a directory, upload anything else
statCallback ==
    /\ ~crashed
    /\ \E cb \in pending :
          /\ cb.op = "stat"
          /\ pending' = (pending \ { cb })
                \cup (IF IsDirectory(cb.path) THEN uploadDirectory(cb.path)
                      ELSE uploadFile(cb.path))
    /\ UploadFrame
    /\ UNCHANGED << store, puts, putCount, putsDone, uploadFailures, crashed >>

\* the callback of fs.readFile issues this.s3.putObject(params) with body
IssuePut(cb, body) ==
    /\ pending' = (pending \ { cb }) \cup { Callback("putObject", cb.path, cb.Key, body) }
    /\ puts' = puts \cup { [Bucket |-> bucketName, path |-> cb.path, Key |-> cb.Key,
                            Body |-> body] }
    /\ putCount' = [putCount EXCEPT ![cb.path] = @ + 1]

\* the callback of fs.readFile, the read having succeeded
readFileCallback ==
    /\ ~crashed
    /\ \E cb \in pending :
          /\ cb.op = "readFile"
          /\ IssuePut(cb, FileBytes(cb.path))
    /\ UploadFrame
    /\ UNCHANGED << store, putsDone, uploadFailures, crashed >>

\* params.Bucket of the putObject call a callback stands for
PutBucket(cb) ==
    (CHOOSE p \in puts : p.path = cb.path /\ p.Key = cb.Key /\ p.Body = cb.Body).Bucket

\* a putObject call succeeds: the object is written, overwriting its key
putObjectOk ==
    /\ ~crashed
    /\ \E cb \in pending :
          /\ cb.op = "putObject"
          /\ PutBucket(cb) \in BucketNames
          /\ store[PutBucket(cb)].exists
          /\ pending' = pending \ { cb }
          /\ store' = [store EXCEPT ![PutBucket(cb)].objects =
                          [k \in DOMAIN @ \cup { cb.Key } |->
                              IF k = cb.Key THEN cb.Body ELSE @[k]]]
          /\ putsDone' = putsDone \cup { cb.path }
    /\ UploadFrame
    /\ UNCHANGED << puts, putCount, uploadFailures, crashed >>

CanFail == Cardinality(uploadFailures) < MaxUploadFailures

Failure(cb) == [op |-> cb.op, path |-> cb.path]

\* a failing fs.readdir as it would be if its error ended the whole walk
readdirErrorAborts ==
    /\ ~crashed /\ CanFail
    /\ \E cb \in pending :
          /\ cb.op = "readdir"
          /\ uploadFailures' = uploadFailures \cup { Failure(cb) }
    /\ pending' = {}
    /\ UploadFrame
    /\ UNCHANGED << store, puts, putCount, putsDone, crashed >>

\* fs.readdir fails: the waterfall stops and has no final callback
readdirError ==
    /\ ~crashed /\ CanFail
    /\ \E cb \in pending :
          /\ cb.op = "readdir"
          /\ pending' = pending \ { cb }
          /\ uploadFailures' = uploadFailures \cup { Failure(cb) }
    /\ UploadFrame
    /\ UNCHANGED << store, puts, putCount, putsDone, crashed >>

\* fs.stat fails: stats is undefined and stats.isDirectory() throws in the
\* callback; the uncaught exception ends the process
statError ==
    /\ ~crashed /\ CanFail
    /\ \E cb \in pending :
          /\ cb.op = "stat"
          /\ uploadFailures' = uploadFailures \cup { Failure(cb) }
    /\ pending' = {}
    /\ crashed' = TRUE
    /\ UploadFrame
    /\ UNCHANGED << store, puts, putCount, putsDone >>

\* fs.readFile fails: err is ignored and putObject is issued with Body undefined
readFileError ==
    /\ ~crashed /\ CanFail
    /\ \E cb \in pending :
          /\ cb.op = "readFile"
          /\ IssuePut(cb, <<>>)
          /\ uploadFailures' = uploadFailures \cup { Failure(cb) }
    /\ UploadFrame
    /\ UNCHANGED << store, putsDone, crashed >>

\* a putObject call fails: the rejected promise is returned to the caller of
\* fs.readFile's callback, which drops it
putObjectError ==
    /\ ~crashed /\ CanFail
    /\ \E cb \in pending :
          /\ cb.op = "putObject"
          /\ pending' = pending \ { cb }
          /\ uploadFailures' = uploadFailures \cup { Failure(cb) }
    /\ UploadFrame
    /\ UNCHANGED << store, puts, putCount, putsDone, crashed >>

\* between two runs the target bucket is removed by its owner (no run is in
\* progress, so no deployment has a concurrent writer)
BucketRemoved ==
    /\ ~crashed
    /\ Quiescent
    /\ run >= 1 /\ run < MaxRuns
    /\ store[TargetBucket].exists
    /\ store' = [store EXCEPT ![TargetBucket] = AbsentBucket]
    /\ UNCHANGED << sep, tree, distExists, cfgBucket, bucketName, clientPath,
                    bucketExists, pc, inflight, data, promise, observed, calls, events,
                    listed, seenBuckets, reconciled, pending, puts, putCount, putsDone,
                    uploadFailures, crashed, run >>

----------------------------------------------------------------------------

Next ==
    \/ Hook
    \/ BucketRemoved
    \/ processDeployment
    \/ listBuckets
    \/ listObjectsInBucket
    \/ deleteObjectsFromBucket
    \/ createBucket
    \/ configureBucket
    \/ configurePolicyForBucket
    \/ thenUploadDirectory
    \/ RemoteOk
    \/ RemoteFail
    \/ readdirCallback
    \/ statCallback
    \/ readFileCallback
    \/ putObjectOk
    \/ readdirError
    \/ statError
    \/ readFileError
    \/ putObjectError

Spec == Init /\ [][Next]_vars

\* the program without failures in the upload stage
NextLive ==
    \/ Hook
    \/ BucketRemoved
    \/ processDeployment
    \/ listBuckets
    \/ listObjectsInBucket
    \/ deleteObjectsFromBucket
    \/ createBucket
    \/ configureBucket
    \/ configurePolicyForBucket
    \/ thenUploadDirectory
    \/ RemoteOk
    \/ RemoteFail
    \/ readdirCallback
    \/ statCallback
    \/ readFileCallback
    \/ putObjectOk

\* the event loop runs every callback whose operation has completed, and
\* every putObject call is answered
SpecLive ==
    /\ Init
    /\ [][NextLive]_vars
    /\ WF_vars(readdirCallback)
    /\ WF_vars(statCallback)
    /\ WF_vars(readFileCallback)
    /\ WF_vars(putObjectOk)

----------------------------------------------------------------------------
(* Vocabulary of the properties *)

HasEvent(ev, op) == \E i \in DOMAIN events : events[i] = [ev |-> ev, op |-> op]

CallsOf(op) == { i \in DOMAIN calls : calls[i].op = op }

\* the end state reconciliation is to reach
Reconciled(b) ==
    /\ b.exists
    /\ DOMAIN b.objects = {}
    /\ b.website = WebsiteConfig
    /\ b.policy = PolicyFor(TargetBucket)

\* a path relative to the root, its names joined by forward slashes
RECURSIVE SlashJoin(_)
SlashJoin(rel) ==
    IF Len(rel) = 0 THEN <<>>
    ELSE IF Len(rel) = 1 THEN rel[1]
    ELSE SlashJoin(SubSeq(rel, 1, Len(rel) - 1)) \o <<"/">> \o rel[Len(rel)]

\* the upload stage of this run has started and nothing of it is left to run
UploadOver == promise = Resolved /\ pending = {} /\ ~crashed

----------------------------------------------------------------------------
(* C1..C10 *)

\* C1: whenever the reconcile chain has completed (putBucketPolicy succeeded),
\* the target bucket exists, holds zero objects, has the index.html/error.html
\* website configuration and the public-read GetObject policy
C1_ReconcileReachesEndState ==
    \A i \in DOMAIN reconciled : Reconciled(reconciled[i])

\* C2: whenever the promise of the run has resolved, every regular file under
\* the root has been put into the bucket
C2_ResolvedMeansPopulated ==
    promise = Resolved => \A f \in RegularFiles : f \in putsDone

\* C3: when validation fails (client/dist missing, or no bucket name configured),
\* the run rejects with the corresponding validation error and no remote call
\* and no upload callback is issued in that run
C3_ValidationFailureIssuesNoCall ==
    (run >= 1 /\ (~distExists \/ cfgBucket = "")) =>
        /\ promise = Rejected(IF ~distExists THEN MissingBuildOutput
                              ELSE MissingConfiguration)
        /\ calls = <<>>
        /\ events = <<>>
        /\ inflight = NoCall
        /\ puts = {}
        /\ pending = {}

C3_Witness ==
    /\ run = 2
    /\ distExists /\ cfgBucket = ""
    /\ bucketName = TargetBucket
    /\ bucketExists
    /\ promise = Rejected(MissingConfiguration)

\* C4: with no filesystem or store failure, no file is put twice, no put has a
\* directory as its source, and once the walk is over exactly one put has been
\* issued per regular file
C4_OnePutPerRegularFile ==
    uploadFailures = {} =>
        /\ \A p \in DOMAIN putCount : putCount[p] <= 1
        /\ \A p \in puts : p.path \in RegularFiles
        /\ UploadOver =>
              /\ \A f \in RegularFiles : putCount[f] = 1
              /\ \A p \in DOMAIN putCount \ RegularFiles : putCount[p] = 0

C4_Witness ==
    /\ UploadOver
    /\ uploadFailures = {}
    /\ tree = TreeNested
    /\ Cardinality(puts) = 3
    /\ putsDone = RegularFiles

\* C5: the Key of every put is the file's path relative to the root with the
\* separators replaced by forward slashes
C5_KeyIsSlashedRelativePath ==
    \A p \in puts : p.Key = SlashJoin(NodeAt(p.path))

\* C6: no Key starts with a path separator, and two distinct regular files
\* never get the same Key
C6_KeyUniqueAndRelative ==
    /\ \A p \in puts : p.Key = <<>> \/ p.Key[1] \notin { "/", "\\" }
    /\ \A p, q \in puts : p.path # q.path => p.Key # q.Key

\* C7: a deleteObjects call carries exactly the keys the listObjects call of
\* the run returned; it is issued whenever that listing is non-empty; and no
\* putObject call is issued before it has completed
C7_DeleteExactlyListedBeforePuts ==
    /\ \A i \in CallsOf("deleteObjects") :
          /\ { o.Key : o \in calls[i].Objects } = listed
          /\ listed # {}
    /\ (HasEvent("ok", "listObjects") /\ listed # {} /\ pc # "deleteObjectsFromBucket")
          => CallsOf("deleteObjects") # {}
    /\ (puts # {} /\ CallsOf("deleteObjects") # {}) => HasEvent("ok", "deleteObjects")

C7_Witness ==
    /\ Cardinality(listed) = 2
    /\ CallsOf("deleteObjects") # {}
    /\ puts # {}

\* C8: the bucket at the end of the second run's reconcile chain equals the
\* bucket at the end of the first run's reconcile chain
C8_SecondReconcileSameEndState ==
    Len(reconciled) >= 2 => reconciled[2] = reconciled[1]

\* C9: when a call of the reconcile chain fails, it is the last call issued,
\* it was issued once, nothing of the upload stage has been started, and the
\* promise of the run is rejected with the error of that call
C9_ReconcileFailureAborts ==
    \A i \in DOMAIN events :
        events[i].ev = "err" =>
            /\ i = Len(events)
            /\ calls[Len(calls)].op = events[i].op
            /\ Cardinality(CallsOf(events[i].op)) = 1
            /\ inflight = NoCall
            /\ pending = {}
            /\ puts = {}
            /\ promise = Rejected(StoreError(events[i].op))

C9_Witness ==
    /\ promise = Rejected(StoreError("deleteObjects"))
    /\ Len(calls) = 3
    /\ store[TargetBucket].objects # EmptyObjects

\* C10: when a call of the reconcile chain or a step of the upload stage has
\* failed, the caller of the hook holds the promise of the run and that promise
\* is rejected
C10_FailureSurfacedToCaller ==
    ((\E i \in DOMAIN events : events[i].ev = "err") \/ uploadFailures # {}) =>
        /\ observed.value = "promise"
        /\ promise.state = "rejected"

----------------------------------------------------------------------------
(* C11..C19 *)

\* the position of a reconcile call in the chain
Rank(op) ==
    CASE op = "listBuckets" -> 1
      [] op = "listObjects" -> 2
      [] op = "deleteObjects" -> 3
      [] op = "createBucket" -> 4
      [] op = "putBucketWebsite" -> 5
      [] op = "putBucketPolicy" -> 6
      [] OTHER -> 0

EventsOf(ev) == { i \in DOMAIN events : events[i].ev = ev }

\* C11: the first reconcile call is listBuckets; every later call is issued
\* right after the previous call has succeeded and comes later in the chain
\* order; every response answers the call issued just before it; so at most
\* one reconcile call is in flight
C11_ReconcileCallsSequential ==
    /\ \A i \in EventsOf("call") :
          IF i = 1 THEN events[i].op = "listBuckets"
          ELSE /\ events[i - 1].ev = "ok"
               /\ Rank(events[i - 1].op) < Rank(events[i].op)
    /\ \A i \in EventsOf("ok") \cup EventsOf("err") :
          /\ i > 1
          /\ events[i - 1] = [ev |-> "call", op |-> events[i].op]
    /\ Cardinality(EventsOf("call"))
          - Cardinality(EventsOf("ok") \cup EventsOf("err")) \in { 0, 1 }
    /\ (inflight # NoCall) <=> (events # <<>> /\ events[Len(events)].ev = "call")

C11_Witness ==
    /\ Len(calls) = 5
    /\ CallsOf("deleteObjects") # {}
    /\ HasEvent("ok", "putBucketPolicy")

\* C12: while anything of the upload stage has been started, putBucketPolicy
\* is the last reconcile call and it has succeeded, and the bucket exists with
\* the website configuration and the policy
C12_UploadAfterPolicy ==
    (pending # {} \/ puts # {} \/ putsDone # {}) =>
        /\ events # <<>>
        /\ events[Len(events)] = [ev |-> "ok", op |-> "putBucketPolicy"]
        /\ pending # {} =>
              /\ store[bucketName].exists
              /\ store[bucketName].website = WebsiteConfig
              /\ store[bucketName].policy = PolicyFor(bucketName)

C12_Witness ==
    /\ \E cb \in pending : cb.op = "putObject"
    /\ \E cb \in pending : cb.op = "readdir"
    /\ HasEvent("ok", "createBucket")

\* C13: listObjects is called exactly when the bucket name is in this run's
\* listBuckets response, createBucket exactly when it is not, and a run whose
\* reconcile chain succeeds has called exactly one of the two
C13_DrainOrCreateFollowsListing ==
    /\ CallsOf("listObjects") # {} => bucketName \in seenBuckets
    /\ CallsOf("createBucket") # {} => bucketName \notin seenBuckets
    /\ (HasEvent("ok", "listBuckets") /\ pc \notin { "listBuckets", "listObjectsInBucket" }
            /\ bucketName \in seenBuckets)
          => CallsOf("listObjects") # {}
    /\ HasEvent("ok", "putBucketPolicy") =>
          Cardinality(CallsOf("listObjects")) + Cardinality(CallsOf("createBucket")) = 1

\* C14: deleteObjects is called at most once per run, never with an empty key
\* list and only after a non-empty listing of the existing bucket; it is called
\* whenever the listing is non-empty, and not at all when the listing is empty
\* or the bucket was not listed
C14_DeleteIffNonEmptyListing ==
    /\ Cardinality(CallsOf("deleteObjects")) <= 1
    /\ \A i \in CallsOf("deleteObjects") :
          /\ calls[i].Objects # {}
          /\ bucketExists
          /\ HasEvent("ok", "listObjects")
          /\ listed # {}
    /\ (HasEvent("ok", "listObjects") /\ listed # {}
            /\ pc \in { "createBucket", "configureBucket", "configurePolicyForBucket",
                        "uploadDirectory" })
          => CallsOf("deleteObjects") # {}
    /\ (HasEvent("ok", "listObjects") /\ listed = {}) => CallsOf("deleteObjects") = {}
    /\ CallsOf("listObjects") = {} => CallsOf("deleteObjects") = {}

C14_Witness ==
    /\ HasEvent("ok", "listObjects")
    /\ listed = {}
    /\ HasEvent("ok", "putBucketPolicy")
    /\ CallsOf("deleteObjects") = {}

\* C15: once the stages before it have succeeded putBucketWebsite has been
\* called exactly once, and once that call has succeeded putBucketPolicy has
\* been called exactly once, after it; neither is ever called twice in a run
C15_ConfigureAndAuthorizeOnce ==
    /\ Cardinality(CallsOf("putBucketWebsite")) <= 1
    /\ Cardinality(CallsOf("putBucketPolicy")) <= 1
    /\ pc = "configurePolicyForBucket" => Cardinality(CallsOf("putBucketWebsite")) = 1
    /\ (pc = "uploadDirectory" \/ promise = Resolved) =>
          /\ Cardinality(CallsOf("putBucketWebsite")) = 1
          /\ Cardinality(CallsOf("putBucketPolicy")) = 1
          /\ \A i \in CallsOf("putBucketWebsite") : \A j \in CallsOf("putBucketPolicy") :
                i < j

C15_Witness ==
    /\ promise = Resolved
    /\ bucketExists
    /\ CallsOf("deleteObjects") # {}
    /\ CallsOf("putBucketPolicy") # {}

InFlightPuts == Cardinality({ cb \in pending : cb.op = "putObject" })

\* C16: in the step that resolves the promise of the run the readdir of the
\* root is still pending and no putObject has been issued or completed; and
\* the putObject calls in flight are bounded only by the number of regular
\* files (the witness has all of them in flight at once)
C16_UploadFireAndForget ==
    /\ [][(promise = Pending /\ promise' = Resolved) =>
             /\ \E cb \in pending' : cb.op = "readdir" /\ cb.path = clientPath
             /\ puts' = {}
             /\ putsDone' = {}]_vars
    /\ [](InFlightPuts <= Cardinality(RegularFiles))

C16_Witness ==
    /\ promise = Resolved
    /\ tree = TreeNested
    /\ InFlightPuts = 3
    /\ putsDone = {}

\* the path f is the entry p or lies below it
Under(p, f) ==
    \/ f = p
    \/ /\ Len(f) > Len(p)
       /\ SubSeq(f, 1, Len(p)) = p
       /\ f[Len(p) + 1] = sep

\* the regular files a failure of the upload stage has struck
Affected == { f \in RegularFiles : \E x \in uploadFailures : Under(x.path, f) }

\* once nothing of the upload stage is left to run, every regular file no
\* failure has struck has been put
OthersProcessed == pending = {} => \A f \in RegularFiles \ Affected : f \in putsDone

C18_UploadTerminates ==
    (promise = Resolved) ~> (pending = {} /\ putsDone = RegularFiles)

C18_Witness ==
    /\ run = 2
    /\ tree = TreeNested
    /\ promise = Resolved
    /\ pending = {}
    /\ putsDone = RegularFiles

\* C19: every bucket-scoped call of a run, putObject included, names the
\* configured bucket; bucketName does not change within a run; and the other
\* bucket keeps its contents, configuration and policy
C19_OnlyConfiguredBucketTouched ==
    /\ [](\A i \in DOMAIN calls :
            calls[i].op # "listBuckets" =>
                calls[i].Bucket = bucketName /\ calls[i].Bucket = cfgBucket)
    /\ [](\A p \in puts : p.Bucket = bucketName /\ p.Bucket = cfgBucket)
    /\ [](store[OtherBucket] = InitialOther)
    /\ [][run' = run => bucketName' = bucketName]_vars

C19_Witness ==
    /\ CallsOf("deleteObjects") # {}
    /\ CallsOf("putBucketPolicy") # {}
    /\ putsDone # {}
    /\ store[OtherBucket] = InitialOther

====
